---------------------------- MODULE Spec2Model ----------------------------
(***************************************************************************)
(* Customer message processor (sam02425/1440_eng, src/app).                *)
(*                                                                         *)
(* Two entry points are modelled for one request (message, product):       *)
(*   - MessageClassifier.classify_message (classifier.py), which awaits    *)
(*     one classification call and then one extraction call of the         *)
(*     external model, validates / repairs the extracted Record and falls  *)
(*     back to static Records on failure;                                  *)
(*   - process_customer_message (main.py), the HTTP endpoint, which calls  *)
(*     MessageProcessor.process_message (llm.py) synchronously and builds  *)
(*     a CustomerResponse (models.py) from its result.                     *)
(* ResponseGenerator.generate_customer_response (response_generator.py),   *)
(* which no entry point calls, is modelled by itself (GeneratorSpec).      *)
(*                                                                         *)
(* Representation.                                                         *)
(*   - A Python str is the sequence of its characters, so that lower(),    *)
(*     substring tests, startswith() and f-string concatenation are        *)
(*     computed and not assumed.                                           *)
(*   - A decoded JSON value is a tagged record [type, v]; a dict is a      *)
(*     function from its keys to values, a list a sequence of values.      *)
(*   - A number is held in hundredths (0.3 is 30, 1.0 is 100), so that     *)
(*     the confidence scores of the source stay integers.                  *)
(*   - The external model is a black box: each call either raises or       *)
(*     returns a text that is not JSON or that decodes to a JSON value.    *)
(***************************************************************************)
EXTENDS Integers, Sequences, FiniteSets, TLC

(***************************************************************************)
(* Bounds of the model.                                                    *)
(***************************************************************************)
\* longest suggested_resources list the external model returns
MaxResources == 2

\* concurrent requests sent to one worker
NumRequests == 2

\* longest suggested_resources list passed to generate_customer_response
MaxListed == 3

(***************************************************************************)
(* String literals of the source, as character sequences.                  *)
(***************************************************************************)
\* "bug_report"
S_bug_report ==
    <<"b","u","g","_","r","e","p","o","r","t">>
\* "feature_request"
S_feature_request ==
    <<"f","e","a","t","u","r","e","_","r","e","q","u","e","s","t">>
\* "general_inquiry"
S_general_inquiry ==
    <<"g","e","n","e","r","a","l","_","i","n","q","u","i","r","y">>
\* "BUG-"
S_BUG ==
    <<"B","U","G","-">>
\* "FR-"
S_FR ==
    <<"F","R","-">>
\* "Low"
S_Low ==
    <<"L","o","w">>
\* "Medium"
S_Medium ==
    <<"M","e","d","i","u","m">>
\* "High"
S_High ==
    <<"H","i","g","h">>
\* "Critical"
S_Critical ==
    <<"C","r","i","t","i","c","a","l">>
\* "Under Review"
S_UnderReview ==
    <<"U","n","d","e","r"," ","R","e","v","i","e","w">>
\* "Account Management"
S_AccountManagement ==
    <<"A","c","c","o","u","n","t"," ","M","a","n","a","g","e","m","e","n",
      "t">>
\* "Billing"
S_Billing ==
    <<"B","i","l","l","i","n","g">>
\* "Usage Question"
S_UsageQuestion ==
    <<"U","s","a","g","e"," ","Q","u","e","s","t","i","o","n">>
\* "Other"
S_Other ==
    <<"O","t","h","e","r">>
\* "can't log in"
P_cant_log_in ==
    <<"c","a","n","'","t"," ","l","o","g"," ","i","n">>
\* "button just spins"
P_button_just_spins ==
    <<"b","u","t","t","o","n"," ","j","u","s","t"," ","s","p","i","n","s">>
\* "15 minutes before"
P_15_minutes_before ==
    <<"1","5"," ","m","i","n","u","t","e","s"," ","b","e","f","o","r","e">>
\* "instead of just 5 minutes"
P_instead_of_just_5_minutes ==
    <<"i","n","s","t","e","a","d"," ","o","f"," ","j","u","s","t"," ","5",
      " ","m","i","n","u","t","e","s">>
\* "just signed up"
P_just_signed_up ==
    <<"j","u","s","t"," ","s","i","g","n","e","d"," ","u","p">>
\* "billing"
P_billing ==
    <<"b","i","l","l","i","n","g">>
\* "BUG-1234"
T1_id ==
    <<"B","U","G","-","1","2","3","4">>
\* "Login Button Unresponsive"
T1_title ==
    <<"L","o","g","i","n"," ","B","u","t","t","o","n"," ","U","n","r","e",
      "s","p","o","n","s","i","v","e">>
\* "Authentication System"
T1_component ==
    <<"A","u","t","h","e","n","t","i","c","a","t","i","o","n"," ","S","y",
      "s","t","e","m">>
\* "Enter password"
T1_step1 ==
    <<"E","n","t","e","r"," ","p","a","s","s","w","o","r","d">>
\* "Click login button"
T1_step2 ==
    <<"C","l","i","c","k"," ","l","o","g","i","n"," ","b","u","t","t","o",
      "n">>
\* "Button spins indefinitely"
T1_step3 ==
    <<"B","u","t","t","o","n"," ","s","p","i","n","s"," ","i","n","d","e",
      "f","i","n","i","t","e","l","y">>
\* "Authentication Team"
T1_team ==
    <<"A","u","t","h","e","n","t","i","c","a","t","i","o","n"," ","T","e",
      "a","m">>
\* "FR-5678"
T2_id ==
    <<"F","R","-","5","6","7","8">>
\* "Extended Notification Time"
T2_title ==
    <<"E","x","t","e","n","d","e","d"," ","N","o","t","i","f","i","c","a",
      "t","i","o","n"," ","T","i","m","e">>
\* "Allow users to receive notifications 15 minutes before scheduled workouts"
T2_description ==
    <<"A","l","l","o","w"," ","u","s","e","r","s"," ","t","o"," ","r","e",
      "c","e","i","v","e"," ","n","o","t","i","f","i","c","a","t","i","o",
      "n","s"," ","1","5"," ","m","i","n","u","t","e","s"," ","b","e","f",
      "o","r","e"," ","s","c","h","e","d","u","l","e","d"," ","w","o","r",
      "k","o","u","t","s">>
\* "As a user, I want to receive notifications 15 minutes before my scheduled workout so that I have more time to prepare"
T2_user_story ==
    <<"A","s"," ","a"," ","u","s","e","r",","," ","I"," ","w","a","n","t",
      " ","t","o"," ","r","e","c","e","i","v","e"," ","n","o","t","i","f",
      "i","c","a","t","i","o","n","s"," ","1","5"," ","m","i","n","u","t",
      "e","s"," ","b","e","f","o","r","e"," ","m","y"," ","s","c","h","e",
      "d","u","l","e","d"," ","w","o","r","k","o","u","t"," ","s","o"," ",
      "t","h","a","t"," ","I"," ","h","a","v","e"," ","m","o","r","e"," ",
      "t","i","m","e"," ","t","o"," ","p","r","e","p","a","r","e">>
\* "High - Improves user experience by providing more preparation time"
T2_business_value ==
    <<"H","i","g","h"," ","-"," ","I","m","p","r","o","v","e","s"," ","u",
      "s","e","r"," ","e","x","p","e","r","i","e","n","c","e"," ","b","y",
      " ","p","r","o","v","i","d","i","n","g"," ","m","o","r","e"," ","p",
      "r","e","p","a","r","a","t","i","o","n"," ","t","i","m","e">>
\* "Notification System"
T2_component1 ==
    <<"N","o","t","i","f","i","c","a","t","i","o","n"," ","S","y","s","t",
      "e","m">>
\* "Scheduler"
T2_component2 ==
    <<"S","c","h","e","d","u","l","e","r">>
\* "Billing FAQ"
T3_title1 ==
    <<"B","i","l","l","i","n","g"," ","F","A","Q">>
\* "https://example.com/billing-faq"
T3_url1 ==
    <<"h","t","t","p","s",":","/","/","e","x","a","m","p","l","e",".","c",
      "o","m","/","b","i","l","l","i","n","g","-","f","a","q">>
\* "Plan Comparison"
T3_title2 ==
    <<"P","l","a","n"," ","C","o","m","p","a","r","i","s","o","n">>
\* "https://example.com/plans"
T3_url2 ==
    <<"h","t","t","p","s",":","/","/","e","x","a","m","p","l","e",".","c",
      "o","m","/","p","l","a","n","s">>
\* "Help Center"
F_HelpCenter ==
    <<"H","e","l","p"," ","C","e","n","t","e","r">>
\* "https://example.com/help"
F_help_url ==
    <<"h","t","t","p","s",":","/","/","e","x","a","m","p","l","e",".","c",
      "o","m","/","h","e","l","p">>
\* "Contact Support"
F_ContactSupport ==
    <<"C","o","n","t","a","c","t"," ","S","u","p","p","o","r","t">>
\* "https://example.com/support"
F_support_url ==
    <<"h","t","t","p","s",":","/","/","e","x","a","m","p","l","e",".","c",
      "o","m","/","s","u","p","p","o","r","t">>
\* "https://example.com/docs"
F_docs_url ==
    <<"h","t","t","p","s",":","/","/","e","x","a","m","p","l","e",".","c",
      "o","m","/","d","o","c","s">>
\* " Documentation"
F_Documentation ==
    <<" ","D","o","c","u","m","e","n","t","a","t","i","o","n">>
\* "Issue with "
F_IssueWith ==
    <<"I","s","s","u","e"," ","w","i","t","h"," ">>
\* "User Interface"
F_UserInterface ==
    <<"U","s","e","r"," ","I","n","t","e","r","f","a","c","e">>
\* "Step 1: User action"
F_step1 ==
    <<"S","t","e","p"," ","1",":"," ","U","s","e","r"," ","a","c","t","i",
      "o","n">>
\* "Step 2: System response"
F_step2 ==
    <<"S","t","e","p"," ","2",":"," ","S","y","s","t","e","m"," ","r","e",
      "s","p","o","n","s","e">>
\* "Development Team"
F_DevelopmentTeam ==
    <<"D","e","v","e","l","o","p","m","e","n","t"," ","T","e","a","m">>
\* "New Feature for "
F_NewFeatureFor ==
    <<"N","e","w"," ","F","e","a","t","u","r","e"," ","f","o","r"," ">>
\* "Feature requested by customer"
F_description ==
    <<"F","e","a","t","u","r","e"," ","r","e","q","u","e","s","t","e","d",
      " ","b","y"," ","c","u","s","t","o","m","e","r">>
\* "As a user, I want a new capability so that I can achieve my goal"
F_user_story ==
    <<"A","s"," ","a"," ","u","s","e","r",","," ","I"," ","w","a","n","t",
      " ","a"," ","n","e","w"," ","c","a","p","a","b","i","l","i","t","y",
      " ","s","o"," ","t","h","a","t"," ","I"," ","c","a","n"," ","a","c",
      "h","i","e","v","e"," ","m","y"," ","g","o","a","l">>
\* "Medium - Improves user satisfaction"
F_business_value ==
    <<"M","e","d","i","u","m"," ","-"," ","I","m","p","r","o","v","e","s",
      " ","u","s","e","r"," ","s","a","t","i","s","f","a","c","t","i","o",
      "n">>
\* "Main Component"
F_MainComponent ==
    <<"M","a","i","n"," ","C","o","m","p","o","n","e","n","t">>
\* "Secondary Component"
F_SecondaryComponent ==
    <<"S","e","c","o","n","d","a","r","y"," ","C","o","m","p","o","n","e",
      "n","t">>
\* "Thank you for your message about "
F_ThankYouFor ==
    <<"T","h","a","n","k"," ","y","o","u"," ","f","o","r"," ","y","o","u",
      "r"," ","m","e","s","s","a","g","e"," ","a","b","o","u","t"," ">>
\* ". We'll have a support agent review your request and get back to you soon."
F_WellHave ==
    <<"."," ","W","e","'","l","l"," ","h","a","v","e"," ","a"," ","s","u",
      "p","p","o","r","t"," ","a","g","e","n","t"," ","r","e","v","i","e",
      "w"," ","y","o","u","r"," ","r","e","q","u","e","s","t"," ","a","n",
      "d"," ","g","e","t"," ","b","a","c","k"," ","t","o"," ","y","o","u",
      " ","s","o","o","n",".">>
\* "Thank you for contacting us about "
R_ThankYouForContacting ==
    <<"T","h","a","n","k"," ","y","o","u"," ","f","o","r"," ","c","o","n",
      "t","a","c","t","i","n","g"," ","u","s"," ","a","b","o","u","t"," ">>
\* ". Our team will review your message and get back to you soon."
R_OurTeamWillReview ==
    <<"."," ","O","u","r"," ","t","e","a","m"," ","w","i","l","l"," ","r",
      "e","v","i","e","w"," ","y","o","u","r"," ","m","e","s","s","a","g",
      "e"," ","a","n","d"," ","g","e","t"," ","b","a","c","k"," ","t","o",
      " ","y","o","u"," ","s","o","o","n",".">>
\* "Thank you for reporting this issue with "
R_ThankYouForReporting ==
    <<"T","h","a","n","k"," ","y","o","u"," ","f","o","r"," ","r","e","p",
      "o","r","t","i","n","g"," ","t","h","i","s"," ","i","s","s","u","e",
      " ","w","i","t","h"," ">>
\* ". We've created ticket "
R_WeveCreatedTicket ==
    <<"."," ","W","e","'","v","e"," ","c","r","e","a","t","e","d"," ","t",
      "i","c","k","e","t"," ">>
\* " with "
R_with ==
    <<" ","w","i","t","h"," ">>
\* " priority "
R_priority ==
    <<" ","p","r","i","o","r","i","t","y"," ">>
\* "and our team is investigating. We'll update you once we have more information."
R_AndOurTeam ==
    <<"a","n","d"," ","o","u","r"," ","t","e","a","m"," ","i","s"," ","i",
      "n","v","e","s","t","i","g","a","t","i","n","g","."," ","W","e","'",
      "l","l"," ","u","p","d","a","t","e"," ","y","o","u"," ","o","n","c",
      "e"," ","w","e"," ","h","a","v","e"," ","m","o","r","e"," ","i","n",
      "f","o","r","m","a","t","i","o","n",".">>
\* "BUG-0000"
R_BUG0000 ==
    <<"B","U","G","-","0","0","0","0">>
\* "Thank you for your suggestion about "
R_ThankYouForSuggestion ==
    <<"T","h","a","n","k"," ","y","o","u"," ","f","o","r"," ","y","o","u",
      "r"," ","s","u","g","g","e","s","t","i","o","n"," ","a","b","o","u",
      "t"," ">>
\* "this feature"
R_this_feature ==
    <<"t","h","i","s"," ","f","e","a","t","u","r","e">>
\* "! We've logged it as "
R_WeveLoggedItAs ==
    <<"!"," ","W","e","'","v","e"," ","l","o","g","g","e","d"," ","i","t",
      " ","a","s"," ">>
\* " and our product team will review it. "
R_AndOurProductTeam ==
    <<" ","a","n","d"," ","o","u","r"," ","p","r","o","d","u","c","t"," ",
      "t","e","a","m"," ","w","i","l","l"," ","r","e","v","i","e","w"," ",
      "i","t","."," ">>
\* "We appreciate your feedback as it helps us improve "
R_WeAppreciate ==
    <<"W","e"," ","a","p","p","r","e","c","i","a","t","e"," ","y","o","u",
      "r"," ","f","e","e","d","b","a","c","k"," ","a","s"," ","i","t"," ",
      "h","e","l","p","s"," ","u","s"," ","i","m","p","r","o","v","e"," ">>
\* "FR-0000"
R_FR0000 ==
    <<"F","R","-","0","0","0","0">>
\* "Thank you for your inquiry about "
R_ThankYouForInquiry ==
    <<"T","h","a","n","k"," ","y","o","u"," ","f","o","r"," ","y","o","u",
      "r"," ","i","n","q","u","i","r","y"," ","a","b","o","u","t"," ">>
\* " For more information, check out"
R_ForMoreInformation ==
    <<" ","F","o","r"," ","m","o","r","e"," ","i","n","f","o","r","m","a",
      "t","i","o","n",","," ","c","h","e","c","k"," ","o","u","t">>
\* " at "
R_at ==
    <<" ","a","t"," ">>
\* "Resource"
R_Resource ==
    <<"R","e","s","o","u","r","c","e">>
\* "https://example.com"
R_example_url ==
    <<"h","t","t","p","s",":","/","/","e","x","a","m","p","l","e",".","c",
      "o","m">>
\* "None"
R_None ==
    <<"N","o","n","e">>

(***************************************************************************)
(* Request inputs and the strings the external model answers with.         *)
(***************************************************************************)
\* "I can't log in to the web portal. When I enter my password and click login, the button just spins and nothing happens."
TEST_CASE_1 ==
    <<"I"," ","c","a","n","'","t"," ","l","o","g"," ","i","n"," ","t","o",
      " ","t","h","e"," ","w","e","b"," ","p","o","r","t","a","l","."," ",
      "W","h","e","n"," ","I"," ","e","n","t","e","r"," ","m","y"," ","p",
      "a","s","s","w","o","r","d"," ","a","n","d"," ","c","l","i","c","k",
      " ","l","o","g","i","n",","," ","t","h","e"," ","b","u","t","t","o",
      "n"," ","j","u","s","t"," ","s","p","i","n","s"," ","a","n","d"," ",
      "n","o","t","h","i","n","g"," ","h","a","p","p","e","n","s",".">>
\* "It would be really useful if the app could send me a notification 15 minutes before a scheduled workout instead of just 5 minutes before."
TEST_CASE_2 ==
    <<"I","t"," ","w","o","u","l","d"," ","b","e"," ","r","e","a","l","l",
      "y"," ","u","s","e","f","u","l"," ","i","f"," ","t","h","e"," ","a",
      "p","p"," ","c","o","u","l","d"," ","s","e","n","d"," ","m","e"," ",
      "a"," ","n","o","t","i","f","i","c","a","t","i","o","n"," ","1","5",
      " ","m","i","n","u","t","e","s"," ","b","e","f","o","r","e"," ","a",
      " ","s","c","h","e","d","u","l","e","d"," ","w","o","r","k","o","u",
      "t"," ","i","n","s","t","e","a","d"," ","o","f"," ","j","u","s","t",
      " ","5"," ","m","i","n","u","t","e","s"," ","b","e","f","o","r","e",
      ".">>
\* "Hello, I just signed up yesterday. Can you tell me how billing works and if there's a way to switch between monthly and annual plans?"
TEST_CASE_3 ==
    <<"H","e","l","l","o",","," ","I"," ","j","u","s","t"," ","s","i","g",
      "n","e","d"," ","u","p"," ","y","e","s","t","e","r","d","a","y",".",
      " ","C","a","n"," ","y","o","u"," ","t","e","l","l"," ","m","e"," ",
      "h","o","w"," ","b","i","l","l","i","n","g"," ","w","o","r","k","s",
      " ","a","n","d"," ","i","f"," ","t","h","e","r","e","'","s"," ","a",
      " ","w","a","y"," ","t","o"," ","s","w","i","t","c","h"," ","b","e",
      "t","w","e","e","n"," ","m","o","n","t","h","l","y"," ","a","n","d",
      " ","a","n","n","u","a","l"," ","p","l","a","n","s","?">>
\* "I CAN'T log in, the Button Just Spins"
Msg_login ==
    <<"I"," ","C","A","N","'","T"," ","l","o","g"," ","i","n",","," ","t",
      "h","e"," ","B","u","t","t","o","n"," ","J","u","s","t"," ","S","p",
      "i","n","s">>
\* "Notify 15 minutes before instead of just 5 minutes"
Msg_notify ==
    <<"N","o","t","i","f","y"," ","1","5"," ","m","i","n","u","t","e","s",
      " ","b","e","f","o","r","e"," ","i","n","s","t","e","a","d"," ","o",
      "f"," ","j","u","s","t"," ","5"," ","m","i","n","u","t","e","s">>
\* "Just signed up. Billing?"
Msg_billing ==
    <<"J","u","s","t"," ","s","i","g","n","e","d"," ","u","p","."," ","B",
      "i","l","l","i","n","g","?">>
\* "just signed up; 15 minutes before, billing, instead of just 5 minutes"
Msg_mixed ==
    <<"j","u","s","t"," ","s","i","g","n","e","d"," ","u","p",";"," ","1",
      "5"," ","m","i","n","u","t","e","s"," ","b","e","f","o","r","e",",",
      " ","b","i","l","l","i","n","g",","," ","i","n","s","t","e","a","d",
      " ","o","f"," ","j","u","s","t"," ","5"," ","m","i","n","u","t","e",
      "s">>
\* "can't log in"
Msg_partial ==
    <<"c","a","n","'","t"," ","l","o","g"," ","i","n">>
\* "App crashes"
Msg_other ==
    <<"A","p","p"," ","c","r","a","s","h","e","s">>
\* "1440 Mobile App"
Prod_mobile ==
    <<"1","4","4","0"," ","M","o","b","i","l","e"," ","A","p","p">>
\* "Web"
Prod_web ==
    <<"W","e","b">>
\* "Crash"
M_title ==
    <<"C","r","a","s","h">>
\* "UI"
M_component ==
    <<"U","I">>
\* "QA"
M_team ==
    <<"Q","A">>
\* "Open app"
M_step ==
    <<"O","p","e","n"," ","a","p","p">>
\* "text"
M_text ==
    <<"t","e","x","t">>
\* "Urgent"
M_Urgent ==
    <<"U","r","g","e","n","t">>
\* "Unknown"
M_Unknown ==
    <<"U","n","k","n","o","w","n">>
\* "yes"
M_yes ==
    <<"y","e","s">>
\* "none"
M_none ==
    <<"n","o","n","e">>
\* "Approved"
M_Approved ==
    <<"A","p","p","r","o","v","e","d">>
\* "complaint"
M_complaint ==
    <<"c","o","m","p","l","a","i","n","t">>
\* "high"
M_high ==
    <<"h","i","g","h">>
\* "Thanks!"
M_reply ==
    <<"T","h","a","n","k","s","!">>
\* "https://x.io"
M_url ==
    <<"h","t","t","p","s",":","/","/","x",".","i","o">>
\* "BUG-42"
M_id_bug ==
    <<"B","U","G","-","4","2">>
\* "BUG-"
M_id_bug_bare ==
    <<"B","U","G","-">>
\* "BUG-4a"
M_id_bug_alpha ==
    <<"B","U","G","-","4","a">>
\* "1234"
M_id_plain ==
    <<"1","2","3","4">>
\* "bug-7"
M_id_lower ==
    <<"b","u","g","-","7">>
\* "FR-9"
M_id_fr ==
    <<"F","R","-","9">>
\* "FR-"
M_id_fr_bare ==
    <<"F","R","-">>
\* "FR-x"
M_id_fr_alpha ==
    <<"F","R","-","x">>

\* the empty product name
Prod_empty == <<>>

Messages ==
    {TEST_CASE_1, TEST_CASE_2, TEST_CASE_3,
     Msg_login, Msg_notify, Msg_billing, Msg_mixed, Msg_partial, Msg_other}

Products == {Prod_mobile, Prod_web, Prod_empty}

(***************************************************************************)
(* Python str operations.                                                  *)
(***************************************************************************)
UpperCase ==
    <<"A","B","C","D","E","F","G","H","I","J","K","L","M",
      "N","O","P","Q","R","S","T","U","V","W","X","Y","Z">>

LowerCase ==
    <<"a","b","c","d","e","f","g","h","i","j","k","l","m",
      "n","o","p","q","r","s","t","u","v","w","x","y","z">>

DigitChars == <<"0","1","2","3","4","5","6","7","8","9">>

Range(s) == {s[i] : i \in 1..Len(s)}

LowerChar(c) ==
    IF \E i \in 1..26 : UpperCase[i] = c
    THEN LowerCase[CHOOSE i \in 1..26 : UpperCase[i] = c]
    ELSE c

\* str.lower()
lower(s) == [i \in 1..Len(s) |-> LowerChar(s[i])]

\* sub in s
contains(sub, s) ==
    \E i \in 0..(Len(s) - Len(sub)) : SubSeq(s, i + 1, i + Len(sub)) = sub

\* s.startswith(p)
startswith(s, p) == Len(s) >= Len(p) /\ SubSeq(s, 1, Len(p)) = p

\* str(n) of a non-negative int, as in f"BUG-{n}"
RECURSIVE str_int(_)
str_int(n) ==
    IF n < 10 THEN <<DigitChars[n + 1]>>
    ELSE str_int(n \div 10) \o <<DigitChars[(n % 10) + 1]>>

\* random.randint(1000, 9999): the two ends of the range stand for it
RandMin == 1000

RandMax == 9999

RandInts == {RandMin, RandMax}

(***************************************************************************)
(* Decoded JSON values and the outcomes of one external model call.        *)
(***************************************************************************)
JStr(s) == [type |-> "str", v |-> s]

JNum(n) == [type |-> "num", v |-> n]

JBool(b) == [type |-> "bool", v |-> b]

JNull == [type |-> "null", v |-> "null"]

JList(l) == [type |-> "list", v |-> l]

JDict(d) == [type |-> "dict", v |-> d]

\* the call raised (timeout, rate limit, network error, bad model name)
Raise == [type |-> "raise", v |-> "error"]

\* the call returned a content that json.loads rejects
NotJSON == [type |-> "notjson", v |-> "text"]

\* a variable that holds nothing yet
NoValue == [type |-> "none", v |-> "none"]

\* marks a key left out of an object the model returns
Absent == [type |-> "absent", v |-> "absent"]

\* the object with the keys of f that are not Absent
Obj(f) == JDict([k \in {j \in DOMAIN f : f[j] # Absent} |-> f[k]])

\* k in d, for a dict d
has(d, k) == k \in DOMAIN d.v

\* d.get(k, default), for a dict d
get(d, k, default) == IF has(d, k) THEN d.v[k] ELSE default

\* json.loads(response.choices[0].message.content) does not return: the call
\* raised or the content is not JSON
undecodable(r) == r.type \in {"raise", "notjson"}

(***************************************************************************)
(* classifier.py: the static results of MessageClassifier.                 *)
(***************************************************************************)
\* the tuple (message_type, confidence_score, response_data)
Result(mt, cs, rd) ==
    [message_type |-> mt, confidence_score |-> cs, response_data |-> rd]

handle_test_case_1 ==
    Result(JStr(S_bug_report), JNum(95),
        JDict([ticket |-> JDict([
            id |-> JStr(T1_id),
            title |-> JStr(T1_title),
            severity |-> JStr(S_Medium),
            affected_component |-> JStr(T1_component),
            reproduction_steps |->
                JList(<<JStr(T1_step1), JStr(T1_step2), JStr(T1_step3)>>),
            priority |-> JStr(S_High),
            assigned_team |-> JStr(T1_team)])]))

handle_test_case_2 ==
    Result(JStr(S_feature_request), JNum(92),
        JDict([product_requirement |-> JDict([
            id |-> JStr(T2_id),
            title |-> JStr(T2_title),
            description |-> JStr(T2_description),
            user_story |-> JStr(T2_user_story),
            business_value |-> JStr(T2_business_value),
            complexity_estimate |-> JStr(S_Medium),
            affected_components |->
                JList(<<JStr(T2_component1), JStr(T2_component2)>>),
            status |-> JStr(S_UnderReview)])]))

Resource(title, url) == JDict([title |-> JStr(title), url |-> JStr(url)])

handle_test_case_3 ==
    Result(JStr(S_general_inquiry), JNum(88),
        JDict([
            inquiry_category |-> JStr(S_Billing),
            requires_human_review |-> JBool(FALSE),
            suggested_resources |->
                JList(<<Resource(T3_title1, T3_url1),
                        Resource(T3_title2, T3_url2)>>)]))

\* handle_fallback_case returning the wrong static result
handle_fallback_case_wrong_result == handle_test_case_3

handle_fallback_case ==
    Result(JStr(S_general_inquiry), JNum(30),
        JDict([
            inquiry_category |-> JStr(S_Other),
            requires_human_review |-> JBool(TRUE),
            suggested_resources |->
                JList(<<Resource(F_HelpCenter, F_help_url),
                        Resource(F_ContactSupport, F_support_url)>>)]))

(***************************************************************************)
(* classifier.py: _generate_bug_report_data.                               *)
(* r is the outcome of the extraction call, n the value random.randint     *)
(* returns on the path that draws one.                                     *)
(***************************************************************************)
bug_required_fields ==
    {"id", "title", "severity", "affected_component",
     "reproduction_steps", "priority", "assigned_team"}

\* bug_report_fallback with a priority the prompt of the function allows
\* and the data model does not
bug_report_fallback_critical(product, n) ==
    JDict([ticket |-> JDict([
        id |-> JStr(S_BUG \o str_int(n)),
        title |-> JStr(F_IssueWith \o product),
        severity |-> JStr(S_Medium),
        affected_component |-> JStr(F_UserInterface),
        reproduction_steps |-> JList(<<JStr(F_step1), JStr(F_step2)>>),
        priority |-> JStr(S_Critical),
        assigned_team |-> JStr(F_DevelopmentTeam)])])

\* the except branch: the fallback ticket
bug_report_fallback(product, n) ==
    JDict([ticket |-> JDict([
        id |-> JStr(S_BUG \o str_int(n)),
        title |-> JStr(F_IssueWith \o product),
        severity |-> JStr(S_Medium),
        affected_component |-> JStr(F_UserInterface),
        reproduction_steps |-> JList(<<JStr(F_step1), JStr(F_step2)>>),
        priority |-> JStr(S_High),
        assigned_team |-> JStr(F_DevelopmentTeam)])])

\* bug_report_raises with the loop over required_fields left out: only the
\* id, which the code reads, has to be there
bug_report_raises_id_only(r) ==
    \/ undecodable(r)
    \/ r.type # "dict"
    \/ ~has(r, "ticket")
    \/ r.v["ticket"].type # "dict"
    \/ ~has(r.v["ticket"], "id")
    \/ r.v["ticket"].v["id"].type # "str"

\* the try block raises.  A parsed value that is not a dict raises whatever
\* it holds: `"ticket" not in x` is a TypeError for a number, bool or null,
\* and for a list or str it either yields the ValueError or lets x["ticket"]
\* raise a TypeError.  The same holds of the ticket and its required fields.
\* A ticket id that is not a str has no startswith (AttributeError).
bug_report_raises(r) ==
    \/ undecodable(r)
    \/ r.type # "dict"
    \/ ~has(r, "ticket")
    \/ r.v["ticket"].type # "dict"
    \/ \E f \in bug_required_fields : ~has(r.v["ticket"], f)
    \/ r.v["ticket"].v["id"].type # "str"

\* bug_report_repaired without the id check
bug_report_repaired_keeps_id(r, n) == r

\* bug_report_repaired testing the prefix of the other validator
bug_report_repaired_wrong_prefix(r, n) ==
    LET ticket == r.v["ticket"]
        id == IF startswith(ticket.v["id"].v, S_FR)
              THEN ticket.v["id"]
              ELSE JStr(S_BUG \o str_int(n))
    IN  JDict([r.v EXCEPT !["ticket"] = JDict([ticket.v EXCEPT !["id"] = id])])

\* the try block returns: parsed_data with the id prefix ensured
bug_report_repaired(r, n) ==
    LET ticket == r.v["ticket"]
        id == IF startswith(ticket.v["id"].v, S_BUG)
              THEN ticket.v["id"]
              ELSE JStr(S_BUG \o str_int(n))
    IN  JDict([r.v EXCEPT !["ticket"] = JDict([ticket.v EXCEPT !["id"] = id])])

generate_bug_report_data(r, product, n) ==
    IF bug_report_raises(r)
    THEN bug_report_fallback(product, n)
    ELSE bug_report_repaired(r, n)

(***************************************************************************)
(* classifier.py: _generate_feature_request_data.                          *)
(***************************************************************************)
feature_required_fields ==
    {"id", "title", "description", "user_story", "business_value",
     "complexity_estimate", "affected_components", "status"}

feature_request_fallback(product, n) ==
    JDict([product_requirement |-> JDict([
        id |-> JStr(S_FR \o str_int(n)),
        title |-> JStr(F_NewFeatureFor \o product),
        description |-> JStr(F_description),
        user_story |-> JStr(F_user_story),
        business_value |-> JStr(F_business_value),
        complexity_estimate |-> JStr(S_Medium),
        affected_components |->
            JList(<<JStr(F_MainComponent), JStr(F_SecondaryComponent)>>),
        status |-> JStr(S_UnderReview)])])

feature_request_raises(r) ==
    \/ undecodable(r)
    \/ r.type # "dict"
    \/ ~has(r, "product_requirement")
    \/ r.v["product_requirement"].type # "dict"
    \/ \E f \in feature_required_fields : ~has(r.v["product_requirement"], f)
    \/ r.v["product_requirement"].v["id"].type # "str"

\* feature_request_repaired with the id check inverted: a prefixed id is
\* replaced too
feature_request_repaired_new_id(r, n) ==
    LET requirement == r.v["product_requirement"]
    IN  JDict([r.v EXCEPT !["product_requirement"] =
            JDict([requirement.v EXCEPT
                !["id"] = JStr(S_FR \o str_int(n)),
                !["status"] = JStr(S_UnderReview)])])

\* parsed_data with the id prefix ensured and the status forced
feature_request_repaired(r, n) ==
    LET requirement == r.v["product_requirement"]
        id == IF startswith(requirement.v["id"].v, S_FR)
              THEN requirement.v["id"]
              ELSE JStr(S_FR \o str_int(n))
    IN  JDict([r.v EXCEPT !["product_requirement"] =
            JDict([requirement.v EXCEPT
                !["id"] = id,
                !["status"] = JStr(S_UnderReview)])])

generate_feature_request_data(r, product, n) ==
    IF feature_request_raises(r)
    THEN feature_request_fallback(product, n)
    ELSE feature_request_repaired(r, n)

(***************************************************************************)
(* classifier.py: _generate_general_inquiry_data.                          *)
(***************************************************************************)
inquiry_required_fields ==
    {"inquiry_category", "requires_human_review", "suggested_resources"}

valid_categories == {S_AccountManagement, S_Billing, S_UsageQuestion, S_Other}

\* the placeholder that replaces a malformed suggested_resources entry
documentation_resource(product) ==
    Resource(product \o F_Documentation, F_docs_url)

general_inquiry_fallback(product) ==
    JDict([
        inquiry_category |-> JStr(S_Other),
        requires_human_review |-> JBool(TRUE),
        suggested_resources |->
            JList(<<documentation_resource(product),
                    Resource(F_ContactSupport, F_support_url)>>)])

\* once the three fields are there nothing in the try block raises
general_inquiry_raises(r) ==
    \/ undecodable(r)
    \/ r.type # "dict"
    \/ \E f \in inquiry_required_fields : ~has(r, f)

\* repair_category without the coercion
repair_category_keeps(x) == x

\* `x not in valid_categories` is decided by ==, and no value that is not a
\* str equals a str
repair_category(x) ==
    IF x.type = "str" /\ x.v \in valid_categories THEN x ELSE JStr(S_Other)

\* isinstance(x, bool)
repair_review(x) == IF x.type = "bool" THEN x ELSE JBool(TRUE)

\* repair_resources dropping the malformed entries instead of replacing
\* them
repair_resources_drops(x, product) ==
    LET l == IF x.type = "list" THEN x.v ELSE <<>>
        WellFormed(e) == e.type = "dict" /\ has(e, "title") /\ has(e, "url")
    IN  JList(SelectSeq(l, WellFormed))

\* a value that is not a list becomes [], then each entry that is not a dict
\* with title and url is replaced in place
repair_resources(x, product) ==
    LET l == IF x.type = "list" THEN x.v ELSE <<>>
    IN  JList([i \in 1..Len(l) |->
            IF l[i].type = "dict" /\ has(l[i], "title") /\ has(l[i], "url")
            THEN l[i]
            ELSE documentation_resource(product)])

general_inquiry_repaired(r, product) ==
    JDict([r.v EXCEPT
        !["inquiry_category"] = repair_category(@),
        !["requires_human_review"] = repair_review(@),
        !["suggested_resources"] = repair_resources(@, product)])

generate_general_inquiry_data(r, product) ==
    IF general_inquiry_raises(r)
    THEN general_inquiry_fallback(product)
    ELSE general_inquiry_repaired(r, product)

(***************************************************************************)
(* classifier.py: classify_message, up to and after its awaits.            *)
(***************************************************************************)
\* test_case without lower(): the phrases are matched case-sensitively
test_case_case_sensitive(message) ==
    IF /\ contains(P_cant_log_in, message)
       /\ contains(P_button_just_spins, message)
    THEN 1
    ELSE IF /\ contains(P_15_minutes_before, message)
            /\ contains(P_instead_of_just_5_minutes, message)
    THEN 2
    ELSE IF contains(P_just_signed_up, message) /\ contains(P_billing, message)
    THEN 3
    ELSE 0

\* which hard-coded test case the message is, 0 for none
test_case(message) ==
    LET m == lower(message)
    IN  IF contains(P_cant_log_in, m) /\ contains(P_button_just_spins, m)
        THEN 1
        ELSE IF /\ contains(P_15_minutes_before, m)
                /\ contains(P_instead_of_just_5_minutes, m)
        THEN 2
        ELSE IF contains(P_just_signed_up, m) /\ contains(P_billing, m)
        THEN 3
        ELSE 0

handle_test_case(k) ==
    IF k = 1 THEN handle_test_case_1
    ELSE IF k = 2 THEN handle_test_case_2
    ELSE handle_test_case_3

\* the classification call or json.loads raises, or classification_data is
\* not a dict and has no get (AttributeError)
classification_raises(r) == undecodable(r) \/ r.type # "dict"

message_type_of(r) == get(r, "message_type", JStr(S_general_inquiry))

\* confidence_score_of with the confidence of the fallback as its default
confidence_score_of_fallback_default(r) == get(r, "confidence_score", JNum(30))

\* the default 0.7
confidence_score_of(r) == get(r, "confidence_score", JNum(70))

\* the if / elif / else over message_type
branch_of(mt) ==
    IF mt = JStr(S_bug_report) THEN "bug_report"
    ELSE IF mt = JStr(S_feature_request) THEN "feature_request"
    ELSE "general_inquiry"

\* response_data of the branch, from the outcome e of the extraction call
response_data_of(mt, e, product, n) ==
    IF branch_of(mt) = "bug_report"
    THEN generate_bug_report_data(e, product, n)
    ELSE IF branch_of(mt) = "feature_request"
    THEN generate_feature_request_data(e, product, n)
    ELSE generate_general_inquiry_data(e, product)

\* what classify_message returns once the extraction step has returned
classify_result(c, e, product, n) ==
    Result(message_type_of(c), confidence_score_of(c),
           response_data_of(message_type_of(c), e, product, n))

(***************************************************************************)
(* llm.py: MessageProcessor.                                               *)
(***************************************************************************)
generate_fallback(product) ==
    JDict([
        message_type |-> JStr(S_general_inquiry),
        confidence_score |-> JNum(30),
        response_data |-> JDict([
            inquiry_category |-> JStr(S_Other),
            requires_human_review |-> JBool(TRUE),
            suggested_resources |->
                JList(<<Resource(F_HelpCenter, F_help_url),
                        Resource(F_ContactSupport, F_support_url)>>)]),
        customer_response |-> JStr(F_ThankYouFor \o product \o F_WellHave)])

\* the try block raises or finds the structure invalid.  A result that is
\* not a dict never comes back: either a key test fails (fallback), or the
\* key tests raise, or result['message_type'] in the log line raises.
process_invalid(r) ==
    \/ undecodable(r)
    \/ r.type # "dict"
    \/ ~has(r, "message_type")
    \/ ~has(r, "confidence_score")
    \/ ~has(r, "response_data")

process_message(r, product) ==
    IF process_invalid(r) THEN generate_fallback(product) ELSE r

(***************************************************************************)
(* models.py and main.py: CustomerResponse and the endpoint.               *)
(***************************************************************************)
message_type_literals == {S_bug_report, S_feature_request, S_general_inquiry}

\* CustomerResponse(...) validates.  The values the model is given here are
\* those whose validation does not depend on coercion rules: a number for a
\* float, a str for a str, a dict for a Dict; null and other types fail.
customer_response_valid(mt, cs, rd, cr) ==
    /\ mt.type = "str" /\ mt.v \in message_type_literals
    /\ cs.type = "num"
    /\ rd.type = "dict"
    /\ cr.type = "str"

\* the HTTP outcome of process_customer_message for the dict that
\* process_message returned: a missing key is a KeyError, and every
\* exception becomes HTTPException(500)
endpoint_response(result) ==
    IF /\ has(result, "message_type")
       /\ has(result, "confidence_score")
       /\ has(result, "response_data")
       /\ has(result, "customer_response")
       /\ customer_response_valid(result.v["message_type"],
              result.v["confidence_score"], result.v["response_data"],
              result.v["customer_response"])
    THEN [status |-> 200,
          body |-> JDict([
              message_type |-> result.v["message_type"],
              confidence_score |-> result.v["confidence_score"],
              response_data |-> result.v["response_data"],
              customer_response |-> result.v["customer_response"]])]
    ELSE [status |-> 500, body |-> NoValue]

(***************************************************************************)
(* What the external model may answer.                                     *)
(***************************************************************************)
\* the outcomes that are no JSON object at all
Junk == {Raise, NotJSON, JList(<<>>), JStr(M_text), JNull}

ModelMessageTypes ==
    {JStr(S_bug_report), JStr(S_feature_request), JStr(S_general_inquiry),
     JStr(M_complaint), JNull, Absent}

ModelConfidences ==
    {JNum(0), JNum(100), JNum(150), JNum(-20), JStr(M_high), Absent}

\* answers to the classification call of classify_message
ClassifyResponses ==
    Junk \cup
    {Obj([message_type |-> mt, confidence_score |-> cs]) :
        mt \in ModelMessageTypes, cs \in ModelConfidences}

\* f without the key k
Without(f, k) == [j \in DOMAIN f \ {k} |-> f[j]]

ModelBugIds ==
    {JStr(M_id_bug), JStr(M_id_bug_bare), JStr(M_id_bug_alpha),
     JStr(M_id_plain), JStr(M_id_lower), JStr(M_id_fr), JNum(123400), JNull}

ModelSeverities == {JStr(S_Critical), JStr(S_Low), JStr(M_Urgent), JNull}

ModelPriorities == {JStr(S_Low), JStr(S_Critical), JNum(100)}

ModelSteps ==
    {JList(<<JStr(M_step)>>), JList(<<>>), JList(<<JNum(100)>>), JStr(M_text)}

ModelTickets ==
    {[id |-> i, title |-> JStr(M_title), severity |-> s,
      affected_component |-> JStr(M_component), reproduction_steps |-> st,
      priority |-> p, assigned_team |-> JStr(M_team)] :
        i \in ModelBugIds, s \in ModelSeverities,
        p \in ModelPriorities, st \in ModelSteps}

BaseTicket ==
    [id |-> JStr(M_id_plain), title |-> JStr(M_title),
     severity |-> JStr(S_Low), affected_component |-> JStr(M_component),
     reproduction_steps |-> JList(<<JStr(M_step)>>),
     priority |-> JStr(S_Low), assigned_team |-> JStr(M_team)]

ModelFeatureIds ==
    {JStr(M_id_fr), JStr(M_id_fr_bare), JStr(M_id_fr_alpha),
     JStr(M_id_plain), JStr(M_id_bug), JNum(123400), JNull}

ModelComplexities == {JStr(S_Low), JStr(S_High), JStr(M_Urgent), JNull}

ModelStatuses == {JStr(S_UnderReview), JStr(M_Approved), JNull}

ModelComponents == {JList(<<JStr(M_component)>>), JStr(M_text)}

ModelRequirements ==
    {[id |-> i, title |-> JStr(M_title), description |-> JStr(M_text),
      user_story |-> JStr(M_text), business_value |-> JStr(M_high),
      complexity_estimate |-> c, affected_components |-> ac, status |-> s] :
        i \in ModelFeatureIds, c \in ModelComplexities,
        s \in ModelStatuses, ac \in ModelComponents}

BaseRequirement ==
    [id |-> JStr(M_id_plain), title |-> JStr(M_title),
     description |-> JStr(M_text), user_story |-> JStr(M_text),
     business_value |-> JStr(M_high), complexity_estimate |-> JStr(S_Low),
     affected_components |-> JList(<<JStr(M_component)>>),
     status |-> JStr(M_Approved)]

ModelCategories ==
    {JStr(S_AccountManagement), JStr(S_Billing), JStr(S_Other),
     JStr(M_Unknown), JStr(P_billing), JNull}

ModelReviews == {JBool(TRUE), JBool(FALSE), JStr(M_yes), JNull}

ModelResourceEntries ==
    {Resource(M_title, M_url), JDict([title |-> JStr(M_title)]), JStr(M_text)}

ModelResources ==
    {JList(l) : l \in UNION {[1..k -> ModelResourceEntries] :
                                k \in 0..MaxResources}}
    \cup {JStr(M_none), JNull, Resource(M_title, M_url)}

ModelInquiries ==
    {[inquiry_category |-> c, requires_human_review |-> h,
      suggested_resources |-> sr] :
        c \in ModelCategories, h \in ModelReviews, sr \in ModelResources}

BaseInquiry ==
    [inquiry_category |-> JStr(M_Unknown),
     requires_human_review |-> JStr(M_yes),
     suggested_resources |-> JStr(M_none)]

\* answers to the extraction call of _generate_bug_report_data
BugResponses ==
    Junk
    \cup {JDict([ticket |-> JDict(t)]) : t \in ModelTickets}
    \cup {JDict([ticket |-> JDict(Without(BaseTicket, k))]) :
            k \in bug_required_fields}
    \cup {JDict([ticket |-> JStr(M_text)]), JDict([ticket |-> JNull]),
          JDict([product_requirement |-> JDict(BaseRequirement)]),
          JDict(BaseInquiry)}

\* answers to the extraction call of _generate_feature_request_data
FeatureResponses ==
    Junk
    \cup {JDict([product_requirement |-> JDict(q)]) : q \in ModelRequirements}
    \cup {JDict([product_requirement |-> JDict(Without(BaseRequirement, k))]) :
            k \in feature_required_fields}
    \cup {JDict([product_requirement |-> JStr(M_text)]),
          JDict([product_requirement |-> JNull]),
          JDict([ticket |-> JDict(BaseTicket)]), JDict(BaseInquiry)}

\* answers to the extraction call of _generate_general_inquiry_data
InquiryResponses ==
    Junk
    \cup {JDict(q) : q \in ModelInquiries}
    \cup {JDict(Without(BaseInquiry, k)) : k \in inquiry_required_fields}
    \cup {JDict([ticket |-> JDict(BaseTicket)]),
          JDict([product_requirement |-> JDict(BaseRequirement)])}

ExtractResponses(branch) ==
    IF branch = "bug_report" THEN BugResponses
    ELSE IF branch = "feature_request" THEN FeatureResponses
    ELSE InquiryResponses

ModelResponseData ==
    {JDict([ticket |-> JDict(BaseTicket)]),
     JDict([product_requirement |-> JDict(BaseRequirement)]),
     JDict([product_requirement |->
         JDict([BaseRequirement EXCEPT !["status"] = JStr(S_UnderReview)])]),
     JDict(BaseInquiry), JNull, Absent}

ModelCustomerResponses == {JStr(M_reply), JNull, Absent}

\* answers to the call of process_message
ProcessResponses ==
    Junk \cup
    {Obj([message_type |-> mt, confidence_score |-> cs,
          response_data |-> rd, customer_response |-> cr]) :
        mt \in ModelMessageTypes, cs \in ModelConfidences,
        rd \in ModelResponseData, cr \in ModelCustomerResponses}

(***************************************************************************)
(* response_generator.py: ResponseGenerator.  A per-category generator     *)
(* builds its prompt, awaits one completion inside try/except and, when    *)
(* that raises, returns a text built from response_data.  Each of the      *)
(* three is decorated with @retry(stop=stop_after_attempt(3)); the prompt  *)
(* is built outside the try block.                                         *)
(***************************************************************************)
\* {}
EmptyDict == JDict([k \in {} |-> JNull])

\* f"{v}" for a str, None, True or False
format(v) ==
    CASE v.type = "str" -> v.v
      [] v.type = "null" -> R_None
      [] v.type = "bool" -> IF v.v THEN <<"T","r","u","e">>
                                   ELSE <<"F","a","l","s","e">>

\* x.get(...) raises AttributeError: x is not a dict
no_get(x) == x.type # "dict"

\* the per-category generator that generate_customer_response awaits
generator_of(message_type) ==
    IF message_type = S_bug_report THEN "bug_report"
    ELSE IF message_type = S_feature_request THEN "feature_request"
    ELSE "general_inquiry"

\* the key of response_data a generator reads its record from, with the
\* default of its .get
record_key(generator) ==
    IF generator = "bug_report" THEN "ticket" ELSE "product_requirement"

\* ticket = response_data.get("ticket", {}), and likewise req
record_of(generator, response_data) ==
    get(response_data, record_key(generator), EmptyDict)

\* resources = response_data.get("suggested_resources", [])
resources_of(response_data) ==
    get(response_data, "suggested_resources", JList(<<>>))

\* [f"- {r.get('title')}: {r.get('url')}" for r in resources] raises:
\* resources is not iterable (TypeError) or one of its elements, the
\* characters of a str and the keys of a dict included, is not a dict
\* (AttributeError)
resource_list_raises(resources) ==
    CASE resources.type = "list" ->
            \E i \in 1..Len(resources.v) : no_get(resources.v[i])
      [] resources.type = "str" -> Len(resources.v) > 0
      [] resources.type = "dict" -> DOMAIN resources.v # {}
      [] OTHER -> TRUE

\* the statements before the try block of a generator raise
prompt_raises(generator, response_data) ==
    IF no_get(response_data) THEN TRUE
    ELSE IF generator = "general_inquiry"
         THEN resource_list_raises(resources_of(response_data))
         ELSE no_get(record_of(generator, response_data))

\* lines 90-92
bug_report_fallback_text(ticket, product) ==
    R_ThankYouForReporting \o product \o R_WeveCreatedTicket
        \o format(get(ticket, "id", JStr(R_BUG0000))) \o R_with
        \o format(get(ticket, "priority", JStr(S_High))) \o R_priority
        \o R_AndOurTeam

\* lines 142-144
feature_request_fallback_text(req, product) ==
    R_ThankYouForSuggestion
        \o format(get(req, "title", JStr(R_this_feature)))
        \o R_WeveLoggedItAs \o format(get(req, "id", JStr(R_FR0000)))
        \o R_AndOurProductTeam \o R_WeAppreciate \o product \o <<".">>

\* resources[:2] raises: a dict cannot be sliced
slice_raises(resources) == resources.type = "dict"

\* resources[:2], for a list or a str
first_two(resources) ==
    SubSeq(resources.v, 1, IF Len(resources.v) < 2 THEN Len(resources.v) ELSE 2)

\* the loop of lines 198-202 over the sequence l of resources
RECURSIVE resource_text(_)
resource_text(l) ==
    IF l = <<>> THEN <<>>
    ELSE <<" ">> \o format(get(Head(l), "title", JStr(R_Resource)))
            \o R_at
            \o format(get(Head(l), "url", JStr(R_example_url)))
            \o <<",">> \o resource_text(Tail(l))

\* lines 198-207, resources[:2] being l
general_inquiry_fallback_text(l, product) ==
    R_ThankYouForInquiry \o product \o <<".">>
        \o IF resource_text(l) # <<>>
           THEN R_ForMoreInformation
                    \o SubSeq(resource_text(l), 1, Len(resource_text(l)) - 1)
                    \o <<".">>
           ELSE <<>>

\* the except clause of a generator raises in its turn
fallback_raises(generator, response_data) ==
    generator = "general_inquiry" /\ slice_raises(resources_of(response_data))

\* what the except clause of a generator returns
fallback_text(generator, response_data, product) ==
    IF generator = "bug_report"
    THEN bug_report_fallback_text(record_of(generator, response_data), product)
    ELSE IF generator = "feature_request"
    THEN feature_request_fallback_text(record_of(generator, response_data),
                                       product)
    ELSE general_inquiry_fallback_text(first_two(resources_of(response_data)),
                                       product)

\* line 41
generic_text(product) ==
    R_ThankYouForContacting \o product \o R_OurTeamWillReview

(***************************************************************************)
(* tenacity: @retry(stop=stop_after_attempt(3)) re-invokes a function      *)
(* whose call raised, while attempts are left.                             *)
(***************************************************************************)
StopAfterAttempt == 3

retry_again(raised, attempt) == raised /\ attempt < StopAfterAttempt

\* classify_escapes without the except clause: what the try block raises
\* reaches the retry wrapper
classify_escapes_uncaught(c) == classification_raises(c)

\* an exception leaves classify_message: never, `except Exception` covers
\* the whole try block and nothing outside it raises
classify_escapes(c) == FALSE

\* an exception leaves a _generate_*_data function: never, for the same
\* reason
generate_escapes(e) == FALSE

(***************************************************************************)
(* The state of one request.                                               *)
(***************************************************************************)
VARIABLES
    message,            \* the customer's message
    product,            \* the product name
    entry,              \* the entry point that serves the request
    pc,                 \* where the handler is
    classification,     \* outcome of the classification call
    extraction,         \* outcome of the extraction call
    result,             \* what classify_message returned
    completion,         \* outcome of the call of process_message
    processed,          \* what process_message returned
    http,               \* the response of the endpoint
    calls,              \* external model calls attempted
    classify_attempts,  \* tenacity attempts of classify_message
    generate_attempts,  \* tenacity attempts of the _generate_*_data step
    inbox,              \* the requests sent to one worker of the server
    handlers,           \* where the handler of each of them is
    loop,               \* the request whose handler holds the event loop
    message_type,       \* argument of generate_customer_response
    response_data,      \* argument of generate_customer_response
    generator_pc,       \* where generate_customer_response is
    attempts,           \* tenacity attempts of the per-category generator
    acreate_calls,      \* completions the generator awaited
    text                \* what generate_customer_response returned

\* the state of the request
requestVars ==
    <<message, product, entry, pc, classification, extraction, result,
      completion, processed, http, calls, classify_attempts,
      generate_attempts>>

\* the state of the worker
workerVars == <<inbox, handlers, loop>>

\* the state of ResponseGenerator.generate_customer_response
generatorVars ==
    <<message_type, response_data, generator_pc, attempts, acreate_calls,
      text>>

\* generate_customer_response has not been called
generator_idle ==
    /\ message_type = <<>>
    /\ response_data = NoValue
    /\ generator_pc = "idle"
    /\ attempts = 0
    /\ acreate_calls = 0
    /\ text = NoValue

vars == <<requestVars, workerVars, generatorVars>>

NoResponse == [status |-> 0, body |-> NoValue]

Init ==
    /\ message \in Messages
    /\ product \in Products
    /\ entry = "none"
    /\ pc = "start"
    /\ classification = NoValue
    /\ extraction = NoValue
    /\ result = NoValue
    /\ completion = NoValue
    /\ processed = NoValue
    /\ http = NoResponse
    /\ calls = 0
    /\ classify_attempts = 0
    /\ generate_attempts = 0
    /\ inbox = <<>>
    /\ handlers = <<>>
    /\ loop = 0
    /\ generator_idle

\* classify_message is invoked: a test-case message returns at once, any
\* other message awaits the classification call
classify_message ==
    /\ pc = "start"
    /\ entry' = "classify_message"
    /\ classify_attempts' = 1
    /\ IF test_case(message) # 0
       THEN /\ result' = handle_test_case(test_case(message))
            /\ pc' = "done"
            /\ calls' = calls
       ELSE /\ result' = result
            /\ pc' = "await_classification"
            /\ calls' = calls + 1
    /\ UNCHANGED <<message, product, classification, extraction, completion,
                   processed, http, generate_attempts>>
    /\ UNCHANGED <<workerVars, generatorVars>>

\* the classification call is over: the except branch returns the fallback,
\* otherwise the _generate_*_data function of the branch awaits its call
classification_returns ==
    /\ pc = "await_classification"
    /\ \E c \in ClassifyResponses :
        /\ classification' = c
        /\ IF retry_again(classify_escapes(c), classify_attempts)
           THEN /\ classify_attempts' = classify_attempts + 1
                /\ calls' = calls + 1
                /\ pc' = "await_classification"
                /\ UNCHANGED <<result, generate_attempts>>
           ELSE IF classification_raises(c)
           THEN /\ result' = handle_fallback_case
                /\ pc' = "done"
                /\ UNCHANGED <<calls, classify_attempts, generate_attempts>>
           ELSE /\ generate_attempts' = 1
                /\ calls' = calls + 1
                /\ pc' = "await_extraction"
                /\ UNCHANGED <<result, classify_attempts>>
    /\ UNCHANGED <<message, product, entry, extraction, completion,
                   processed, http>>
    /\ UNCHANGED <<workerVars, generatorVars>>

\* the extraction call is over: the _generate_*_data function returns its
\* Record and classify_message returns the tuple
extraction_returns ==
    /\ pc = "await_extraction"
    /\ \E e \in ExtractResponses(branch_of(message_type_of(classification))),
          n \in RandInts :
        /\ extraction' = e
        /\ IF retry_again(generate_escapes(e), generate_attempts)
           THEN /\ generate_attempts' = generate_attempts + 1
                /\ calls' = calls + 1
                /\ pc' = "await_extraction"
                /\ result' = result
           ELSE /\ result' = classify_result(classification, e, product, n)
                /\ pc' = "done"
                /\ UNCHANGED <<calls, generate_attempts>>
    /\ UNCHANGED <<message, product, entry, classification, completion,
                   processed, http, classify_attempts>>
    /\ UNCHANGED <<workerVars, generatorVars>>

\* the endpoint: process_message calls the model synchronously, and the
\* handler builds the CustomerResponse or answers 500
process_customer_message ==
    /\ pc = "start"
    /\ entry' = "process_customer_message"
    /\ \E r \in ProcessResponses :
        /\ completion' = r
        /\ processed' = process_message(r, product)
        /\ http' = endpoint_response(process_message(r, product))
    /\ calls' = calls + 1
    /\ pc' = "done"
    /\ UNCHANGED <<message, product, classification, extraction, result,
                   classify_attempts, generate_attempts>>
    /\ UNCHANGED <<workerVars, generatorVars>>

Next ==
    \/ classify_message
    \/ classification_returns
    \/ extraction_returns
    \/ process_customer_message

Spec == Init /\ [][Next]_vars

\* a call of the model that was issued comes back: it returns or it raises
FairSpec ==
    /\ Spec
    /\ WF_vars(classification_returns)
    /\ WF_vars(extraction_returns)

TypeOK ==
    /\ pc \in {"start", "await_classification", "await_extraction", "done"}
    /\ entry \in {"none", "classify_message", "process_customer_message"}
    /\ calls \in 0..2

(***************************************************************************)
(* main.py on one worker: the handlers of concurrent requests share one    *)
(* event loop.  process_customer_message is a coroutine without an await:  *)
(* it calls process_message, whose client.chat.completions.create is the   *)
(* synchronous client, so the handler keeps the loop until it returns.     *)
(***************************************************************************)
Requesters == 1..NumRequests

WorkerInputs ==
    {[message |-> m, product |-> p] :
        m \in {TEST_CASE_1, Msg_other}, p \in Products}

Handler(at, status) == [pc |-> at, status |-> status]

WorkerInit ==
    /\ message = Msg_other
    /\ product = Prod_web
    /\ entry = "none"
    /\ pc = "start"
    /\ classification = NoValue
    /\ extraction = NoValue
    /\ result = NoValue
    /\ completion = NoValue
    /\ processed = NoValue
    /\ http = NoResponse
    /\ calls = 0
    /\ classify_attempts = 0
    /\ generate_attempts = 0
    /\ inbox \in [Requesters -> WorkerInputs]
    /\ handlers = [i \in Requesters |-> Handler("pending", 0)]
    /\ loop = 0
    /\ generator_idle

\* the event loop, free, runs the handler of request i up to the call of
\* the model, where the handler blocks without giving the loop back
handler_runs(i) ==
    /\ loop = 0
    /\ handlers[i].pc = "pending"
    /\ handlers' = [handlers EXCEPT ![i] = Handler("in_call", 0)]
    /\ loop' = i
    /\ UNCHANGED <<inbox, requestVars, generatorVars>>

\* the call of request i is over: the handler answers and ends, which
\* frees the loop
call_returns(i) ==
    /\ loop = i
    /\ handlers[i].pc = "in_call"
    /\ \E r \in ProcessResponses :
        handlers' = [handlers EXCEPT ![i] =
            Handler("done",
                endpoint_response(
                    process_message(r, inbox[i].product)).status)]
    /\ loop' = 0
    /\ UNCHANGED <<inbox, requestVars, generatorVars>>

WorkerNext ==
    \/ \E i \in Requesters : handler_runs(i)
    \/ \E i \in Requesters : call_returns(i)

WorkerSpec == WorkerInit /\ [][WorkerNext]_vars

(***************************************************************************)
(* ResponseGenerator.generate_customer_response for one call.              *)
(***************************************************************************)
\* what one awaited completion gives: response.choices[0].message.content,
\* or an exception
Completions == {JStr(M_reply), Raise}

MessageTypeArgs ==
    {S_bug_report, S_feature_request, S_general_inquiry, M_complaint}

\* values of response_data["ticket"] and ["product_requirement"]
RecordArgs ==
    {JNull, JStr(M_text), EmptyDict,
     JDict([id |-> JStr(M_id_bug), title |-> JStr(M_title),
            priority |-> JStr(S_Low)]),
     JDict([id |-> JNull, title |-> JBool(TRUE)])}

\* entries of response_data["suggested_resources"]
ResourceEntryArgs ==
    {Resource(T3_title1, T3_url1), JDict([title |-> JStr(M_title)]),
     EmptyDict, JStr(M_url)}

\* values of response_data["suggested_resources"]
ResourceArgs ==
    {JList(l) : l \in UNION {[1..k -> ResourceEntryArgs] : k \in 0..MaxListed}}
    \cup {JNull, JNum(0), JStr(<<>>), JStr(M_none), EmptyDict,
          Resource(M_title, M_url)}

ResponseDataArgs ==
    {JNull, JList(<<>>), JStr(M_text), EmptyDict}
    \cup {JDict([ticket |-> t]) : t \in RecordArgs}
    \cup {JDict([product_requirement |-> q]) : q \in RecordArgs}
    \cup {JDict([inquiry_category |-> JStr(S_Billing),
                 requires_human_review |-> JBool(FALSE),
                 suggested_resources |-> r]) : r \in ResourceArgs}

GeneratorInit ==
    /\ message = Msg_other
    /\ product \in Products
    /\ entry = "none"
    /\ pc = "start"
    /\ classification = NoValue
    /\ extraction = NoValue
    /\ result = NoValue
    /\ completion = NoValue
    /\ processed = NoValue
    /\ http = NoResponse
    /\ calls = 0
    /\ classify_attempts = 0
    /\ generate_attempts = 0
    /\ inbox = <<>>
    /\ handlers = <<>>
    /\ loop = 0
    /\ message_type \in MessageTypeArgs
    /\ response_data \in ResponseDataArgs
    /\ generator_pc = "start"
    /\ attempts = 0
    /\ acreate_calls = 0
    /\ text = NoValue

\* generate_customer_response awaits the generator of message_type
generate_customer_response ==
    /\ generator_pc = "start"
    /\ generator_pc' = "invoked"
    /\ attempts' = 1
    /\ UNCHANGED <<message_type, response_data, acreate_calls, text>>
    /\ UNCHANGED <<requestVars, workerVars>>

\* an exception left the generator: the retry wrapper invokes it again
\* while attempts are left, then raises RetryError, which the except clause
\* of generate_customer_response turns into the generic text
generator_raised ==
    IF retry_again(TRUE, attempts)
    THEN /\ attempts' = attempts + 1
         /\ generator_pc' = "invoked"
         /\ UNCHANGED text
    ELSE /\ generator_pc' = "done"
         /\ text' = JStr(generic_text(product))
         /\ UNCHANGED attempts

\* one attempt of the generator, up to its await: the prompt is built and
\* the completion requested
generator_invoked ==
    /\ generator_pc = "invoked"
    /\ IF prompt_raises(generator_of(message_type), response_data)
       THEN generator_raised /\ UNCHANGED acreate_calls
       ELSE /\ generator_pc' = "in_call"
            /\ acreate_calls' = acreate_calls + 1
            /\ UNCHANGED <<attempts, text>>
    /\ UNCHANGED <<message_type, response_data>>
    /\ UNCHANGED <<requestVars, workerVars>>

\* the awaited completion returns its content, which the generator returns,
\* or raises, and the except clause of the generator builds its text
acreate_returns ==
    /\ generator_pc = "in_call"
    /\ \E c \in Completions :
        IF c # Raise
        THEN /\ generator_pc' = "done"
             /\ text' = c
             /\ UNCHANGED attempts
        ELSE IF fallback_raises(generator_of(message_type), response_data)
        THEN generator_raised
        ELSE /\ generator_pc' = "done"
             /\ text' = JStr(fallback_text(generator_of(message_type),
                                           response_data, product))
             /\ UNCHANGED attempts
    /\ UNCHANGED <<message_type, response_data, acreate_calls>>
    /\ UNCHANGED <<requestVars, workerVars>>

GeneratorNext ==
    \/ generate_customer_response
    \/ generator_invoked
    \/ acreate_returns

GeneratorSpec == GeneratorInit /\ [][GeneratorNext]_vars

(***************************************************************************)
(* The data model the Records are held against (models.py and the table    *)
(* of the specification).                                                  *)
(***************************************************************************)
IsStr(x) == x.type = "str"

IsStrList(x) == x.type = "list" /\ \A i \in 1..Len(x.v) : IsStr(x.v[i])

IsOneOf(x, S) == IsStr(x) /\ x.v \in S

\* prefix followed by at least one digit and nothing else
IsPrefixedId(x, prefix) ==
    /\ IsStr(x)
    /\ Len(x.v) > Len(prefix)
    /\ \A i \in 1..Len(prefix) : x.v[i] = prefix[i]
    /\ \A i \in (Len(prefix) + 1)..Len(x.v) : x.v[i] \in Range(DigitChars)

\* prefix followed by the four digits of a number of 1000..9999
IsGeneratedId(x, prefix) ==
    /\ IsPrefixedId(x, prefix)
    /\ Len(x.v) = Len(prefix) + 4
    /\ x.v[Len(prefix) + 1] # "0"

IsResource(x) ==
    x.type = "dict" /\ DOMAIN x.v = {"title", "url"}

ConformantTicket(rd) ==
    /\ rd.type = "dict" /\ DOMAIN rd.v = {"ticket"}
    /\ LET t == rd.v["ticket"]
       IN  /\ t.type = "dict" /\ DOMAIN t.v = bug_required_fields
           /\ IsPrefixedId(t.v["id"], S_BUG)
           /\ IsStr(t.v["title"])
           /\ IsOneOf(t.v["severity"], {S_Low, S_Medium, S_High, S_Critical})
           /\ IsStr(t.v["affected_component"])
           /\ IsStrList(t.v["reproduction_steps"])
           /\ Len(t.v["reproduction_steps"].v) > 0
           /\ IsOneOf(t.v["priority"], {S_Low, S_Medium, S_High})
           /\ IsStr(t.v["assigned_team"])

\* every constraint but the one on status
ConformantRequirementButStatus(rd) ==
    /\ rd.type = "dict" /\ DOMAIN rd.v = {"product_requirement"}
    /\ LET q == rd.v["product_requirement"]
       IN  /\ q.type = "dict" /\ DOMAIN q.v = feature_required_fields
           /\ IsPrefixedId(q.v["id"], S_FR)
           /\ IsStr(q.v["title"])
           /\ IsStr(q.v["description"])
           /\ IsStr(q.v["user_story"])
           /\ IsStr(q.v["business_value"])
           /\ IsOneOf(q.v["complexity_estimate"], {S_Low, S_Medium, S_High})
           /\ IsStrList(q.v["affected_components"])

ConformantRequirement(rd) ==
    /\ ConformantRequirementButStatus(rd)
    /\ rd.v["product_requirement"].v["status"] = JStr(S_UnderReview)

ConformantInquiry(rd) ==
    /\ rd.type = "dict" /\ DOMAIN rd.v = inquiry_required_fields
    /\ IsOneOf(rd.v["inquiry_category"],
               {S_AccountManagement, S_Billing, S_UsageQuestion, S_Other})
    /\ rd.v["requires_human_review"].type = "bool"
    /\ rd.v["suggested_resources"].type = "list"
    /\ \A i \in 1..Len(rd.v["suggested_resources"].v) :
           IsResource(rd.v["suggested_resources"].v[i])

\* classify_message has returned from the branch b after an extraction call
Extracted(b) ==
    /\ entry = "classify_message"
    /\ pc = "done"
    /\ extraction # NoValue
    /\ branch_of(message_type_of(classification)) = b

\* classify_message has returned
Classified == entry = "classify_message" /\ pc = "done"

\* the endpoint has answered
Answered == entry = "process_customer_message" /\ pc = "done"

\* the answer of the model has the wrapper key w with every field of F
HasAllFields(r, w, F) ==
    /\ r.type = "dict"
    /\ has(r, w)
    /\ r.v[w].type = "dict"
    /\ \A f \in F : has(r.v[w], f)

(***************************************************************************)
(* Claims.                                                                 *)
(***************************************************************************)

\* every value of the answer r has the JSON type the response schema names
\* for its key: what is left to vary is which keys are there and which
\* string message_type is
WellTyped(r) ==
    \/ undecodable(r)
    \/ /\ r.type = "dict"
       /\ get(r, "message_type", JStr(S_bug_report)).type = "str"
       /\ get(r, "confidence_score", JNum(0)).type = "num"
       /\ get(r, "response_data", JDict(<<>>)).type = "dict"
       /\ get(r, "customer_response", JStr(<<>>)).type = "str"

\* C1: whether the call raises, returns text that is not JSON, returns JSON
\* with any subset of the four keys or any message_type string, the endpoint
\* answers 200 with a body that carries message_type, confidence_score,
\* response_data and customer_response; it never answers 500.
C1_EndpointNeverFails ==
    (Answered /\ WellTyped(completion)) =>
        /\ http.status = 200
        /\ http.body.type = "dict"
        /\ DOMAIN http.body.v =
             {"message_type", "confidence_score", "response_data",
              "customer_response"}

\* the confidence the model reported is a number, or it reported none
ReportsNumber(r) ==
    r.type = "dict" /\ get(r, "confidence_score", JNum(0)).type = "num"

InUnitInterval(cs) == cs.type = "num" /\ 0 <= cs.v /\ cs.v <= 100

\* C2: for every number the model reports as its confidence, the
\* confidence_score returned by classify_message and by process_message lies
\* in [0, 1], and on the fallback path it is 0.3.
C2_ConfidenceInUnitInterval ==
    /\ (Classified /\ (classification = NoValue \/ classification_raises(classification)
                        \/ ReportsNumber(classification)))
         => /\ InUnitInterval(result.confidence_score)
            /\ (classification # NoValue /\ classification_raises(classification))
                 => result.confidence_score = JNum(30)
    /\ (Answered /\ (process_invalid(completion) \/ ReportsNumber(completion)))
         => /\ InUnitInterval(processed.v["confidence_score"])
            /\ process_invalid(completion)
                 => processed.v["confidence_score"] = JNum(30)

\* C3: every Record a validator returns satisfies every constraint of the
\* data model, whatever JSON the model returned.
C3_RecordsConformant ==
    /\ Extracted("bug_report") => ConformantTicket(result.response_data)
    /\ Extracted("feature_request")
         => ConformantRequirement(result.response_data)
    /\ Extracted("general_inquiry")
         => ConformantInquiry(result.response_data)

\* rd holds a product_requirement that has a status
HasStatus(rd) ==
    /\ rd.type = "dict"
    /\ has(rd, "product_requirement")
    /\ rd.v["product_requirement"].type = "dict"
    /\ has(rd.v["product_requirement"], "status")

\* C4: every feature_request result of classify_message and of
\* process_message has a product_requirement whose status is "Under
\* Review", whatever status the model supplied.
C4_StatusNeverModelControlled ==
    /\ (Classified /\ result.message_type = JStr(S_feature_request))
         => /\ HasStatus(result.response_data)
            /\ result.response_data.v["product_requirement"].v["status"]
                 = JStr(S_UnderReview)
    /\ (/\ Answered
        /\ processed.v["message_type"] = JStr(S_feature_request)
        /\ HasStatus(processed.v["response_data"]))
         => processed.v["response_data"].v["product_requirement"].v["status"]
              = JStr(S_UnderReview)

\* the id rule: a str id with the prefix is kept, any other id is replaced
\* by a generated id with the prefix
IdRule(old, new, prefix) ==
    IF old.type = "str" /\ startswith(old.v, prefix)
    THEN new = old
    ELSE new # old /\ IsGeneratedId(new, prefix)

\* C5: when all required fields are present, an id without the category
\* prefix is replaced in the returned Record by a newly generated id with
\* the prefix, and an id with the prefix is returned unchanged.
C5_IdPrefixEnsured ==
    /\ (Extracted("bug_report")
        /\ HasAllFields(extraction, "ticket", bug_required_fields))
         => IdRule(extraction.v["ticket"].v["id"],
                   result.response_data.v["ticket"].v["id"], S_BUG)
    /\ (Extracted("feature_request")
        /\ HasAllFields(extraction, "product_requirement",
                        feature_required_fields))
         => IdRule(extraction.v["product_requirement"].v["id"],
                   result.response_data.v["product_requirement"].v["id"],
                   S_FR)

\* an id without the prefix was replaced, in a ticket and in a requirement
\* (seen here in the ticket)
C5_Witness ==
    /\ Extracted("bug_report")
    /\ HasAllFields(extraction, "ticket", bug_required_fields)
    /\ extraction.v["ticket"].v["id"] = JStr(M_id_lower)
    /\ result.response_data.v["ticket"].v["id"] = JStr(S_BUG \o str_int(RandMax))
    /\ result.response_data.v["ticket"].v["severity"]
         = extraction.v["ticket"].v["severity"]

\* the inquiry_category the model gave is one of the four allowed strings
GaveAllowedCategory(r) ==
    /\ r.type = "dict"
    /\ has(r, "inquiry_category")
    /\ IsOneOf(r.v["inquiry_category"],
               {S_AccountManagement, S_Billing, S_UsageQuestion, S_Other})

\* C6: the inquiry_category of the Record _generate_general_inquiry_data
\* returns is one of the four allowed strings, and it is Other whenever the
\* model's value is not one of them.
C6_CategoryAllowed ==
    Extracted("general_inquiry") =>
        /\ IsOneOf(result.response_data.v["inquiry_category"],
                   {S_AccountManagement, S_Billing, S_UsageQuestion, S_Other})
        /\ ~GaveAllowedCategory(extraction)
             => result.response_data.v["inquiry_category"] = JStr(S_Other)

\* a category outside the four, given with the other fields, came back Other
C6_Witness ==
    /\ Extracted("general_inquiry")
    /\ ~general_inquiry_raises(extraction)
    /\ extraction.v["inquiry_category"] = JStr(P_billing)
    /\ result.response_data.v["inquiry_category"] = JStr(S_Other)
    /\ result.response_data.v["requires_human_review"] = JBool(FALSE)

\* C7: a general-inquiry answer with all three fields, whose category is
\* not allowed, whose requires_human_review is not a boolean and whose
\* suggested_resources is not a list, is repaired to Other, true and a
\* non-empty placeholder list.
C7_ScenarioC ==
    (/\ Extracted("general_inquiry")
     /\ ~general_inquiry_raises(extraction)
     /\ ~GaveAllowedCategory(extraction)
     /\ extraction.v["requires_human_review"].type # "bool"
     /\ extraction.v["suggested_resources"].type # "list")
    => /\ result.response_data.v["inquiry_category"] = JStr(S_Other)
       /\ result.response_data.v["requires_human_review"] = JBool(TRUE)
       /\ result.response_data.v["suggested_resources"].type = "list"
       /\ Len(result.response_data.v["suggested_resources"].v) > 0

\* the static fallback Record
IsStaticFallback(mt, cs, rd) ==
    /\ mt = JStr(S_general_inquiry)
    /\ cs = JNum(30)
    /\ rd.type = "dict"
    /\ DOMAIN rd.v = inquiry_required_fields
    /\ rd.v["inquiry_category"] = JStr(S_Other)
    /\ rd.v["requires_human_review"] = JBool(TRUE)
    /\ rd.v["suggested_resources"] =
         JList(<<Resource(F_HelpCenter, F_help_url),
                 Resource(F_ContactSupport, F_support_url)>>)

\* C8: when the external model call raises, classify_message and
\* process_message return the fallback: general_inquiry, 0.3, Other, human
\* review, and the two placeholder support resources.
C8_FailedCallGivesFallback ==
    /\ (Classified /\ classification = Raise)
         => IsStaticFallback(result.message_type, result.confidence_score,
                             result.response_data)
    /\ (Answered /\ completion = Raise)
         => /\ IsStaticFallback(processed.v["message_type"],
                                processed.v["confidence_score"],
                                processed.v["response_data"])
            /\ has(processed, "customer_response")

\* the classification call raised and classify_message has returned
C8_Witness ==
    /\ Classified
    /\ classification = Raise
    /\ calls = 1
    /\ result.confidence_score = JNum(30)

\* C9: a fully conformant answer of the model is returned with every field
\* equal to the model's value, but for the status of a product_requirement,
\* which is "Under Review".
C9_ConformantUnchanged ==
    /\ (Extracted("bug_report") /\ ConformantTicket(extraction))
         => result.response_data = extraction
    /\ (Extracted("feature_request")
        /\ ConformantRequirementButStatus(extraction))
         => /\ \A f \in feature_required_fields \ {"status"} :
                  result.response_data.v["product_requirement"].v[f]
                    = extraction.v["product_requirement"].v[f]
            /\ ConformantRequirement(result.response_data)
    /\ (Extracted("general_inquiry") /\ ConformantInquiry(extraction))
         => result.response_data = extraction

\* a conformant requirement with another status came back with its fields
\* and the forced status
C9_Witness ==
    /\ Extracted("feature_request")
    /\ ConformantRequirementButStatus(extraction)
    /\ extraction.v["product_requirement"].v["status"] = JStr(M_Approved)
    /\ result.response_data.v["product_requirement"].v["id"] = JStr(M_id_fr)
    /\ result.response_data.v["product_requirement"].v["status"]
         = JStr(S_UnderReview)

\* the message_type the model reported is a string, or it reported none
ReportsTypeString(r) ==
    r.type = "dict" /\ get(r, "message_type", JStr(S_general_inquiry)).type = "str"

\* the keys of response_data are those of the variant of message_type
ShapeOf(mt, rd) ==
    /\ rd.type = "dict"
    /\ mt = JStr(S_bug_report) => DOMAIN rd.v = {"ticket"}
    /\ mt = JStr(S_feature_request) => DOMAIN rd.v = {"product_requirement"}
    /\ mt = JStr(S_general_inquiry) => DOMAIN rd.v = inquiry_required_fields

\* C10: for any message_type string the model reports, the message_type
\* classify_message returns is one of the three tags and response_data has
\* the shape of that variant.
C10_TypeDeterminesShape ==
    (Classified /\ (classification = NoValue
                    \/ classification_raises(classification)
                    \/ ReportsTypeString(classification)))
    => /\ IsOneOf(result.message_type, message_type_literals)
       /\ ShapeOf(result.message_type, result.response_data)

\* C11: repair is idempotent: a Record a validator returned passes the
\* structural checks of that validator, and its field-repair rules change
\* no field of it, whatever id a second run would draw.
C11_RepairIdempotent ==
    /\ Extracted("bug_report") =>
         /\ ~bug_report_raises(result.response_data)
         /\ \A n \in RandInts :
              bug_report_repaired(result.response_data, n)
                = result.response_data
    /\ Extracted("feature_request") =>
         /\ ~feature_request_raises(result.response_data)
         /\ \A n \in RandInts :
              feature_request_repaired(result.response_data, n)
                = result.response_data
    /\ Extracted("general_inquiry") =>
         /\ ~general_inquiry_raises(result.response_data)
         /\ general_inquiry_repaired(result.response_data, product)
              = result.response_data

\* a ticket whose id was replaced is repaired once more
C11_Witness ==
    /\ Extracted("bug_report")
    /\ ~bug_report_raises(extraction)
    /\ extraction.v["ticket"].v["id"] = JStr(M_id_fr)
    /\ result.response_data # extraction
    /\ bug_report_repaired(result.response_data, RandMin)
         = bug_report_repaired(result.response_data, RandMax)

\* the phrase occurs in s, letter case ignored
OccursIgnoringCase(phrase, s) ==
    \E i \in 0..(Len(s) - Len(phrase)) :
        \A j \in 1..Len(phrase) : LowerChar(s[i + j]) = phrase[j]

\* C12: for every message that holds, case-insensitively, "can't log in"
\* and "button just spins", for any product and whatever the model does,
\* classify_message returns bug_report with a ticket whose id is BUG- and
\* digits and whose reproduction_steps is a non-empty list; the two other
\* fixture messages give feature_request and general_inquiry.
C12_FixtureMessages ==
    Classified =>
        /\ (/\ OccursIgnoringCase(P_cant_log_in, message)
            /\ OccursIgnoringCase(P_button_just_spins, message))
           => /\ result.message_type = JStr(S_bug_report)
              /\ result.response_data.type = "dict"
              /\ has(result.response_data, "ticket")
              /\ IsPrefixedId(result.response_data.v["ticket"].v["id"], S_BUG)
              /\ result.response_data.v["ticket"].v["reproduction_steps"].type
                   = "list"
              /\ Len(result.response_data.v["ticket"]
                       .v["reproduction_steps"].v) > 0
        /\ message = TEST_CASE_2
           => result.message_type = JStr(S_feature_request)
        /\ message = TEST_CASE_3
           => result.message_type = JStr(S_general_inquiry)

\* a message with the two phrases in other letter case was answered without
\* a call
C12_Witness ==
    /\ Classified
    /\ message = Msg_login
    /\ product = Prod_empty
    /\ calls = 0
    /\ result.message_type = JStr(S_bug_report)

\* C13: a call of the external model that raises is attempted again, up to
\* three attempts, and the fallback is returned only when the attempts are
\* exhausted.
C13_FailedCallRetried ==
    /\ (Classified /\ classification = Raise)
         => classify_attempts = StopAfterAttempt
    /\ (entry = "classify_message" /\ pc = "done" /\ extraction = Raise)
         => generate_attempts = StopAfterAttempt

\* the answer r is not JSON, or is an object that lacks the wrapper key w,
\* or whose wrapper lacks a field of F
MalformedWrapped(r, w, F) ==
    \/ r = NotJSON
    \/ /\ r.type = "dict"
       /\ \/ ~has(r, w)
          \/ /\ r.v[w].type = "dict"
             /\ \E f \in F : ~has(r.v[w], f)

\* the answer r is not JSON, or is an object that lacks a field of F
MalformedFlat(r, F) ==
    \/ r = NotJSON
    \/ r.type = "dict" /\ \E f \in F : ~has(r, f)

\* C14: when the answer of the model is not JSON, lacks the wrapper key or
\* lacks a required field, the step makes no further call and returns the
\* whole fallback Record of its category: nothing of the model's answer is
\* in it.
C14_MalformedNotRetried ==
    /\ (Extracted("bug_report")
        /\ MalformedWrapped(extraction, "ticket", bug_required_fields))
         => /\ \E n \in RandInts :
                 result.response_data = bug_report_fallback(product, n)
            /\ calls = 2 /\ generate_attempts = 1
    /\ (Extracted("feature_request")
        /\ MalformedWrapped(extraction, "product_requirement",
                            feature_required_fields))
         => /\ \E n \in RandInts :
                 result.response_data = feature_request_fallback(product, n)
            /\ calls = 2 /\ generate_attempts = 1
    /\ (Extracted("general_inquiry")
        /\ MalformedFlat(extraction, inquiry_required_fields))
         => /\ result.response_data = general_inquiry_fallback(product)
            /\ calls = 2 /\ generate_attempts = 1

\* a ticket without severity was answered by the fallback ticket, after the
\* one extraction call
C14_Witness ==
    /\ Extracted("bug_report")
    /\ extraction.type = "dict"
    /\ has(extraction, "ticket")
    /\ extraction.v["ticket"].type = "dict"
    /\ DOMAIN extraction.v["ticket"].v = bug_required_fields \ {"severity"}
    /\ result.response_data.v["ticket"].v["title"]
         = JStr(F_IssueWith \o product)
    /\ calls = 2

\* the extraction step of the branch b failed: its call raised, or the
\* answer is malformed
ExtractionFailed(b) ==
    /\ Extracted(b)
    /\ \/ extraction = Raise
       \/ /\ b = "bug_report"
          /\ MalformedWrapped(extraction, "ticket", bug_required_fields)
       \/ /\ b = "feature_request"
          /\ MalformedWrapped(extraction, "product_requirement",
                              feature_required_fields)
       \/ /\ b = "general_inquiry"
          /\ MalformedFlat(extraction, inquiry_required_fields)

\* C15: whenever a fallback Record is returned because the classification
\* call or an extraction step failed, the confidence_score classify_message
\* returns is 0.3.
C15_FallbackConfidence ==
    /\ (Classified /\ classification \in {Raise, NotJSON})
         => result.confidence_score = JNum(30)
    /\ \A b \in {"bug_report", "feature_request", "general_inquiry"} :
         ExtractionFailed(b) => result.confidence_score = JNum(30)

\* C16: every fallback Record the code returns (the fallback of
\* classify_message, the except branches of the three validators, the
\* fallback of process_message) satisfies every constraint of the data
\* model of its category, for any product, and is returned: building it
\* does not raise.
C16_FallbacksConformant ==
    /\ (Classified /\ classification # NoValue
        /\ classification_raises(classification))
         => /\ result.message_type = JStr(S_general_inquiry)
            /\ ConformantInquiry(result.response_data)
    /\ (Extracted("bug_report") /\ bug_report_raises(extraction))
         => ConformantTicket(result.response_data)
    /\ (Extracted("feature_request") /\ feature_request_raises(extraction))
         => ConformantRequirement(result.response_data)
    /\ (Extracted("general_inquiry") /\ general_inquiry_raises(extraction))
         => ConformantInquiry(result.response_data)
    /\ (Answered /\ process_invalid(completion))
         => /\ processed.v["message_type"] = JStr(S_general_inquiry)
            /\ ConformantInquiry(processed.v["response_data"])
            /\ processed.v["customer_response"].type = "str"
            /\ http.status = 200

\* the fallback ticket was returned for the empty product name
C16_Witness ==
    /\ Extracted("bug_report")
    /\ extraction = Raise
    /\ product = Prod_empty
    /\ result.response_data.v["ticket"].v["title"] = JStr(F_IssueWith)
    /\ result.response_data.v["ticket"].v["id"] = JStr(S_BUG \o str_int(RandMin))

\* C17: while the handler of a request waits on its call of the model it
\* has yielded: it does not hold the event loop, and the handler of another
\* request that is pending can run.
C17_HandlerYieldsDuringCall ==
    \A i \in DOMAIN handlers :
        handlers[i].pc = "in_call" =>
            /\ loop # i
            /\ \A j \in DOMAIN handlers :
                 handlers[j].pc = "pending" => ENABLED handler_runs(j)

\* classify_message has returned on its success path: both calls returned
\* and neither the classification nor the validator of the branch raised
Succeeded ==
    /\ entry = "classify_message"
    /\ pc = "done"
    /\ extraction # NoValue
    /\ LET b == branch_of(message_type_of(classification))
       IN  /\ b = "bug_report" => ~bug_report_raises(extraction)
           /\ b = "feature_request" => ~feature_request_raises(extraction)
           /\ b = "general_inquiry" => ~general_inquiry_raises(extraction)

\* C18: on the success path classify_message returns the message_type and
\* the confidence_score of the classification JSON, and the confidence_score
\* 0.7 when that JSON has none.
C18_ReportedValuesReturned ==
    Succeeded =>
        /\ has(classification, "message_type")
             => result.message_type = classification.v["message_type"]
        /\ has(classification, "confidence_score")
             => result.confidence_score = classification.v["confidence_score"]
        /\ ~has(classification, "confidence_score")
             => result.confidence_score = JNum(70)

\* a classification without confidence_score came back with 0.7
C18_Witness ==
    /\ Succeeded
    /\ classification = JDict([message_type |-> JStr(S_feature_request)])
    /\ result.message_type = JStr(S_feature_request)
    /\ result.confidence_score = JNum(70)

\* C19: when suggested_resources is a list, the repair keeps its length and
\* order: an entry that is not an object with title and url is replaced in
\* place by the Documentation placeholder of the product, every other entry
\* is left as it is.
C19_ResourcesRepairedInPlace ==
    (/\ Extracted("general_inquiry")
     /\ ~general_inquiry_raises(extraction)
     /\ extraction.v["suggested_resources"].type = "list")
    => LET given == extraction.v["suggested_resources"].v
           back == result.response_data.v["suggested_resources"]
       IN  /\ back.type = "list"
           /\ Len(back.v) = Len(given)
           /\ \A i \in 1..Len(given) :
                IF /\ given[i].type = "dict"
                   /\ {"title", "url"} \subseteq DOMAIN given[i].v
                THEN back.v[i] = given[i]
                ELSE back.v[i] =
                       JDict([title |-> JStr(product \o F_Documentation),
                              url |-> JStr(F_docs_url)])

\* a list of a malformed and a well-formed entry came back with the
\* placeholder first
C19_Witness ==
    /\ Extracted("general_inquiry")
    /\ ~general_inquiry_raises(extraction)
    /\ extraction.v["suggested_resources"]
         = JList(<<JStr(M_text), Resource(M_title, M_url)>>)
    /\ result.response_data.v["suggested_resources"]
         = JList(<<documentation_resource(product), Resource(M_title, M_url)>>)

\* the calls and attempts of one invocation of classify_message are within
\* their limits
CallsBounded ==
    entry = "classify_message" =>
        /\ calls <= 2
        /\ classify_attempts = 1
        /\ generate_attempts <= 1
        /\ \/ OccursIgnoringCase(P_cant_log_in, message)
              /\ OccursIgnoringCase(P_button_just_spins, message)
           \/ message \in {TEST_CASE_2, TEST_CASE_3}
           => calls = 0 /\ pc = "done"

\* C20: whatever fails, one invocation of classify_message ends after at
\* most two attempts of an external call, one classification and at most one
\* extraction, and after none for the three test-case messages; the retry
\* wrapper never invokes a function again.
C20_TerminatesWithinTwoCalls ==
    /\ []CallsBounded
    /\ (entry = "classify_message") ~> (pc = "done")

\* both calls were attempted once and the second one raised
C20_Witness ==
    /\ Classified
    /\ classification # Raise
    /\ extraction = Raise
    /\ calls = 2
    /\ classify_attempts = 1
    /\ generate_attempts = 1

(***************************************************************************)
(* ResponseGenerator (GeneratorSpec).                                      *)
(***************************************************************************)
\* generate_customer_response has returned
Generated == generator_pc = "done"

\* the completion was awaited once and the generator returned its content
\* or the fallback text of its category
AnsweredAfterOneAttempt ==
    /\ attempts = 1
    /\ acreate_calls = 1
    /\ \/ text = JStr(M_reply)
       \/ text = JStr(fallback_text(generator_of(message_type),
                                    response_data, product))

\* the generator was attempted three times without awaiting a completion
\* and the generic text was returned
GenericAfterThreeAttempts ==
    /\ attempts = StopAfterAttempt
    /\ acreate_calls = 0
    /\ text = JStr(generic_text(product))

\* C21: generate_customer_response returns a text whatever message_type,
\* response_data and the completion are.  When the prompt cannot be built,
\* the generator is attempted exactly 3 times and the generic "Thank you
\* for contacting us about <product>..." text is returned; otherwise the
\* generator is attempted once, and a completion that fails gives the
\* fallback text of the category.
C21_GeneratorAlwaysAnswers ==
    Generated =>
        /\ text.type = "str"
        /\ IF prompt_raises(generator_of(message_type), response_data)
           THEN GenericAfterThreeAttempts
           ELSE AnsweredAfterOneAttempt
=============================================================================
